---- MODULE Spec2Model ----
(***************************************************************************)
(* Model of the stash persistence layer of rgb-node:                       *)
(*   src/stashd/storage/disk.rs  DiskStorageConfig, DiskStorage (Store)    *)
(*   src/stashd/index/index.rs   the Index trait                           *)
(* The filesystem under the configured data directory is the state.  Each  *)
(* Store handler is one action; the writer's add_* handlers are also       *)
(* available split at their filesystem calls (exists, create, write) for   *)
(* the interleavings with readers and with a process kill.                 *)
(***************************************************************************)
EXTENDS Integers, Sequences, FiniteSets, TLC

VARIABLES
    dirs,      \* directory path -> "missing" | "dir" | "file"
    files,     \* <<directory, file name>> -> bytes written so far
    store,     \* "none" before DiskStorage::new returned Ok, then "open"
    last,      \* the last completed call: [op, kind, arg, res]
    wr,        \* the writer's position inside an add_* handler
    rd,        \* what the reader's last get/has returned
    idx,       \* the index relation: a function from the bound NodeIds to AnchorIds
    indexed,   \* anchors for which index_anchor returned Ok
    nops,      \* calls made so far
    kills      \* the process kills so far, each with what the writer was doing

vars == <<dirs, files, store, last, wr, rd, idx, indexed, nops, kills>>

----------------------------------------------------------------------------
(* Bounds *)

MaxArtifact == 2    \* distinct artifacts of each of Schema, Genesis, Transition, Extension
MaxTx == 2          \* distinct witness transactions of anchors
MaxOps == 4         \* calls per behaviour
MaxKills == 1       \* process kills per behaviour
MaxForeign == 1     \* directory entries the store did not write

----------------------------------------------------------------------------
(* Results: Rust's Result<T, DiskStorageError> *)

Ok(v) == [ok |-> TRUE, val |-> v]
Err(e) == [ok |-> FALSE, err |-> e]

\* DiskStorageError's variants
DiskStorageError == {"Io", "HashName", "Encoding", "BrokenFilenames"}

----------------------------------------------------------------------------
(* The five kinds and their artifacts *)

Kinds == {"Schema", "Genesis", "Transition", "Extension", "Anchor"}

\* Content hash of an encoding (two bytes for the plain kinds); injective on
\* the encodings of the model, as a cryptographic hash is in practice.
Digest(bytes) == (7 * (2 * bytes[1] + bytes[2]) + 3) % 31

\* Strict encoding of a schema, genesis, transition or extension: the body
\* as a big-endian pair of bits.
Encode(x) == <<x \div 2, x % 2>>

\* Strict decoding: exactly two bytes of a known body, else an Encoding error
\* (a short file is an unexpected end of file).
Decode(bytes) ==
    IF /\ Len(bytes) = 2
       /\ bytes[1] \in 0..((MaxArtifact + 1) \div 2)
       /\ bytes[2] \in 0..1
       /\ 2 * bytes[1] + bytes[2] \in 1..MaxArtifact
    THEN Ok(2 * bytes[1] + bytes[2])
    ELSE Err("Encoding")

Bodies == 1..MaxArtifact

schema_id(x) == Digest(Encode(x))
contract_id(x) == Digest(Encode(x))
node_id(x) == Digest(Encode(x))

NodeIds == {node_id(x) : x \in Bodies}

\* The transition identifiers an anchor's Merkle block may commit to.
LeafSets == {{node_id(1)}, {node_id(2)}, {node_id(1), node_id(2)}}

\* Anchor<MerkleBlock>: a witness transaction and the leaves of its block.
Anchors == [txid : 1..MaxTx, leaves : LeafSets]

LeafMask(a) ==
    (IF node_id(1) \in a.leaves THEN 1 ELSE 0) + (IF node_id(2) \in a.leaves THEN 2 ELSE 0)

EncodeAnchor(a) == <<a.txid, LeafMask(a)>>

DecodeAnchor(bytes) ==
    IF /\ Len(bytes) = 2
       /\ bytes[1] \in 1..MaxTx
       /\ bytes[2] \in 1..3
    THEN Ok([txid |-> bytes[1],
             leaves |-> {t \in {node_id(1), node_id(2)} :
                            \/ t = node_id(1) /\ bytes[2] % 2 = 1
                            \/ t = node_id(2) /\ bytes[2] \div 2 = 1}])
    ELSE Err("Encoding")

\* Anchor::anchor_id: a hash of the witness transaction and the block.
anchor_id(a) == (5 * (4 * a.txid + LeafMask(a)) + 1) % 61

Artifacts(K) == IF K = "Anchor" THEN Anchors ELSE Bodies

identifier(K, x) ==
    CASE K = "Schema" -> schema_id(x)
      [] K = "Genesis" -> contract_id(x)
      [] K = "Transition" -> node_id(x)
      [] K = "Extension" -> node_id(x)
      [] K = "Anchor" -> anchor_id(x)

Ids(K) == {identifier(K, x) : x \in Artifacts(K)}

encode(K, x) == IF K = "Anchor" THEN EncodeAnchor(x) ELSE Encode(x)
decode(K, bytes) == IF K = "Anchor" THEN DecodeAnchor(bytes) ELSE Decode(bytes)

----------------------------------------------------------------------------
(* Textual forms of identifiers and file names.  A name is the sequence of *)
(* its characters; the extension separator and the extension are one       *)
(* character each.                                                         *)

HexCharset == <<"0", "1", "2", "3", "4", "5", "6", "7",
                "8", "9", "a", "b", "c", "d", "e", "f">>

Bech32Charset == <<"q", "p", "z", "r", "y", "9", "x", "8",
                   "g", "f", "2", "t", "v", "d", "w", "0",
                   "s", "3", "j", "n", "5", "4", "k", "h",
                   "c", "e", "6", "m", "u", "a", "7", "l">>

CharIndex(charset, c) == CHOOSE i \in 1..Len(charset) : charset[i] = c

IsChar(charset, c) == \E i \in 1..Len(charset) : charset[i] = c

\* ToHex::to_hex of an identifier: two hexadecimal digits.
to_hex(id) == <<HexCharset[(id \div 16) + 1], HexCharset[(id % 16) + 1]>>

\* ToBech32String::to_bech32: human-readable part, separator, one data
\* character and one checksum character.
to_bech32(hrp, id) ==
    <<hrp, "1", Bech32Charset[id + 1], Bech32Charset[(31 - id) + 1]>>

\* FromBech32Str::from_bech32_str: the inverse, failing on anything that is
\* not a well-formed string of that human-readable part.
from_bech32_str(hrp, s) ==
    IF /\ Len(s) = 4
       /\ s[1] = hrp
       /\ s[2] = "1"
       /\ IsChar(Bech32Charset, s[3])
       /\ IsChar(Bech32Charset, s[4])
       /\ CharIndex(Bech32Charset, s[3]) + CharIndex(Bech32Charset, s[4]) = 33
    THEN Ok(CharIndex(Bech32Charset, s[3]) - 1)
    ELSE Err("BrokenFilenames")

SchemaHrp == "sch"
ContractHrp == "rgb"

\* DiskStorageConfig::RGB_FILE_EXT
RGB_FILE_EXT == "rgb"

\* PathBuf::with_extension on a name that has no extension yet.
with_extension(name, ext) == name \o <<".", ext>>

\* DiskStorageConfig::data_dir and the five sub-directories joined to it.
data_dir == "data_dir"
schemata_dir == "schemata"
geneses_dir == "geneses"
anchors_dir == "anchors"
transitions_dir == "transitions"
extensions_dir == "extensions"

SubDirs == {schemata_dir, geneses_dir, anchors_dir, transitions_dir, extensions_dir}
AllDirs == {data_dir} \cup SubDirs

\* PathBuf::join of a directory and a file name.
join(dir, name) == <<dir, name>>

schema_filename(id) ==
    join(schemata_dir, with_extension(to_bech32(SchemaHrp, id), RGB_FILE_EXT))

genesis_filename(id) ==
    join(geneses_dir, with_extension(to_bech32(ContractHrp, id), RGB_FILE_EXT))

anchor_filename(id) ==
    join(anchors_dir, with_extension(to_hex(id), RGB_FILE_EXT))

transition_filename(id) ==
    join(transitions_dir, with_extension(to_hex(id), RGB_FILE_EXT))

\* extension_filename as a copy of transition_filename that kept the
\* transitions directory.
extension_filename_in_transitions(id) ==
    join(transitions_dir, with_extension(to_hex(id), RGB_FILE_EXT))

extension_filename(id) ==
    join(extensions_dir, with_extension(to_hex(id), RGB_FILE_EXT))

\* path(K, id): the *_filename of the kind.
filename(K, id) ==
    CASE K = "Schema" -> schema_filename(id)
      [] K = "Genesis" -> genesis_filename(id)
      [] K = "Transition" -> transition_filename(id)
      [] K = "Extension" -> extension_filename(id)
      [] K = "Anchor" -> anchor_filename(id)

----------------------------------------------------------------------------
(* The filesystem calls the handlers make, as functions of the directory   *)
(* table ds and the file table fs.                                         *)

\* The path is a directory that can be entered.
is_dir(ds, dir) ==
    /\ ds[data_dir] = "dir"
    /\ dir # data_dir => ds[dir] = "dir"

\* Path::exists on a directory path: anything is there, directory or not.
dir_exists(ds, dir) ==
    IF dir = data_dir
    THEN ds[data_dir] # "missing"
    ELSE ds[data_dir] = "dir" /\ ds[dir] # "missing"

\* Path::exists on a file path.
exists(ds, fs, path) == is_dir(ds, path[1]) /\ path \in DOMAIN fs

\* fs::create_dir_all: creates the directory and its missing parent; fails
\* where a non-directory is in the way.
create_dir_all(ds, dir) ==
    IF ds[data_dir] = "file" \/ ds[dir] = "file"
    THEN [dirs |-> ds, res |-> Err("Io")]
    ELSE [dirs |-> [d \in DOMAIN ds |-> IF d \in {data_dir, dir} THEN "dir" ELSE ds[d]],
          res |-> Ok("created")]

\* fs::File::create: an empty file at the path, truncating what was there;
\* fails when the parent is not a directory.
file_create(ds, fs, path) ==
    IF is_dir(ds, path[1])
    THEN [files |-> (path :> <<>>) @@ fs, res |-> Ok("file")]
    ELSE [files |-> fs, res |-> Err("Io")]

\* io::Write::write of the next byte of an encoding to the open file.
file_write(fs, path, bytes) ==
    (path :> Append(fs[path], bytes[Len(fs[path]) + 1])) @@ fs

\* util::file::WriteFile::write_file: create the file at the given path and
\* strict-encode the artifact into it.
write_file(ds, fs, path, bytes) ==
    LET c == file_create(ds, fs, path) IN
    IF c.res.ok
    THEN [files |-> (path :> bytes) @@ fs, res |-> Ok(Len(bytes))]
    ELSE c

\* util::file::ReadFile::read_file: open the file and strict-decode it.
read_file(K, ds, fs, path) ==
    IF exists(ds, fs, path) THEN decode(K, fs[path]) ELSE Err("Io")

\* fs::remove_file: unlink; a missing file is an error.
remove_file(ds, fs, path) ==
    IF exists(ds, fs, path)
    THEN [files |-> [q \in DOMAIN fs \ {path} |-> fs[q]], res |-> Ok("removed")]
    ELSE [files |-> fs, res |-> Err("Io")]

\* A set as a sequence, in the order the directory yields its entries.
RECURSIVE SeqOf(_)
SeqOf(S) ==
    IF S = {} THEN <<>>
    ELSE LET e == CHOOSE e \in S : TRUE IN <<e>> \o SeqOf(S \ {e})

HasExtension(name, ext) ==
    /\ Len(name) >= 2
    /\ name[Len(name) - 1] = "."
    /\ name[Len(name)] = ext

\* util::file::read_dir_filenames: the names of the directory's entries that
\* carry the extension.
read_dir_filenames(ds, fs, dir, ext) ==
    IF is_dir(ds, dir)
    THEN Ok(SeqOf({p[2] : p \in {q \in DOMAIN fs : q[1] = dir /\ HasExtension(q[2], ext)}}))
    ELSE Err("Io")

\* str::replace(pat, ""): every occurrence of pat, left to right, removed.
RECURSIVE replace(_, _)
replace(name, pat) ==
    IF Len(name) < Len(pat) THEN name
    ELSE IF SubSeq(name, 1, Len(pat)) = pat
         THEN replace(SubSeq(name, Len(pat) + 1, Len(name)), pat)
         ELSE <<Head(name)>> \o replace(Tail(name), pat)

\* Iterator::try_fold of schema_ids / contract_ids: strip ".rgb", parse, and
\* stop at the first name that does not parse.
RECURSIVE parse_names(_, _, _)
parse_names(hrp, names, list) ==
    IF names = <<>> THEN Ok(list)
    ELSE LET id == from_bech32_str(hrp, replace(Head(names), <<".", RGB_FILE_EXT>>)) IN
         IF id.ok THEN parse_names(hrp, Tail(names), Append(list, id.val))
         ELSE Err("BrokenFilenames")

\* genesis_names as a copy of schema_names that kept the schemata directory.
genesis_names_of_schemata(ds, fs) ==
    read_dir_filenames(ds, fs, schemata_dir, RGB_FILE_EXT)

schema_names(ds, fs) == read_dir_filenames(ds, fs, schemata_dir, RGB_FILE_EXT)
genesis_names(ds, fs) == read_dir_filenames(ds, fs, geneses_dir, RGB_FILE_EXT)

----------------------------------------------------------------------------
(* DiskStorage::new *)

\* The directories the constructor looks for and creates, in its order.
NewDirs == <<data_dir, schemata_dir, geneses_dir, anchors_dir, transitions_dir>>

\* The constructor creating each directory without the exists() probe:
\* fs::create_dir of a path that is already there is an error.
RECURSIVE ensure_dirs_unprobed(_, _)
ensure_dirs_unprobed(ds, todo) ==
    IF todo = <<>> THEN [dirs |-> ds, res |-> Ok("DiskStorage")]
    ELSE IF dir_exists(ds, Head(todo)) THEN [dirs |-> ds, res |-> Err("Io")]
    ELSE LET c == create_dir_all(ds, Head(todo)) IN
         IF c.res.ok THEN ensure_dirs_unprobed(c.dirs, Tail(todo)) ELSE c

RECURSIVE ensure_dirs(_, _)
ensure_dirs(ds, todo) ==
    IF todo = <<>> THEN [dirs |-> ds, res |-> Ok("DiskStorage")]
    ELSE IF dir_exists(ds, Head(todo)) THEN ensure_dirs(ds, Tail(todo))
    ELSE LET c == create_dir_all(ds, Head(todo)) IN
         IF c.res.ok THEN ensure_dirs(c.dirs, Tail(todo)) ELSE c

new(ds) == ensure_dirs(ds, NewDirs)

----------------------------------------------------------------------------
(* The Store handlers of DiskStorage, as functions of the filesystem.      *)
(* Readers return a result; writers return the new file table as well.     *)

schema_ids(ds, fs) ==
    LET names == schema_names(ds, fs) IN
    IF names.ok THEN parse_names(SchemaHrp, names.val, <<>>) ELSE names

schema(ds, fs, id) == read_file("Schema", ds, fs, schema_filename(id))

has_schema(ds, fs, id) == Ok(exists(ds, fs, schema_filename(id)))

add_schema(ds, fs, x) ==
    LET path == schema_filename(schema_id(x))
        existed == exists(ds, fs, path)
        w == write_file(ds, fs, path, Encode(x))
    IN  IF w.res.ok THEN [files |-> w.files, res |-> Ok(existed)] ELSE w

remove_schema(ds, fs, id) ==
    LET path == schema_filename(id)
        existed == exists(ds, fs, path)
        r == remove_file(ds, fs, path)
    IN  IF r.res.ok THEN [files |-> r.files, res |-> Ok(existed)] ELSE r

contract_ids(ds, fs) ==
    LET names == genesis_names(ds, fs) IN
    IF names.ok THEN parse_names(ContractHrp, names.val, <<>>) ELSE names

genesis(ds, fs, id) == read_file("Genesis", ds, fs, genesis_filename(id))

has_genesis(ds, fs, id) == Ok(exists(ds, fs, genesis_filename(id)))

add_genesis(ds, fs, x) ==
    LET path == genesis_filename(contract_id(x))
        existed == exists(ds, fs, path)
        w == write_file(ds, fs, path, Encode(x))
    IN  IF w.res.ok THEN [files |-> w.files, res |-> Ok(existed)] ELSE w

remove_genesis(ds, fs, id) ==
    LET path == genesis_filename(id)
        existed == exists(ds, fs, path)
        r == remove_file(ds, fs, path)
    IN  IF r.res.ok THEN [files |-> r.files, res |-> Ok(existed)] ELSE r

anchor(ds, fs, id) == read_file("Anchor", ds, fs, anchor_filename(id))

has_anchor(ds, fs, id) == Ok(exists(ds, fs, anchor_filename(id)))

\* Writes the anchor file; the handler holds no index and updates none.
add_anchor(ds, fs, a) ==
    LET path == anchor_filename(anchor_id(a))
        existed == exists(ds, fs, path)
        w == write_file(ds, fs, path, EncodeAnchor(a))
    IN  IF w.res.ok THEN [files |-> w.files, res |-> Ok(existed)] ELSE w

remove_anchor(ds, fs, id) ==
    LET path == anchor_filename(id)
        existed == exists(ds, fs, path)
        r == remove_file(ds, fs, path)
    IN  IF r.res.ok THEN [files |-> r.files, res |-> Ok(existed)] ELSE r

transition(ds, fs, id) == read_file("Transition", ds, fs, transition_filename(id))

has_transition(ds, fs, id) == Ok(exists(ds, fs, transition_filename(id)))

add_transition(ds, fs, x) ==
    LET path == transition_filename(node_id(x))
        existed == exists(ds, fs, path)
        w == write_file(ds, fs, path, Encode(x))
    IN  IF w.res.ok THEN [files |-> w.files, res |-> Ok(existed)] ELSE w

remove_transition(ds, fs, id) ==
    LET path == transition_filename(id)
        existed == exists(ds, fs, path)
        r == remove_file(ds, fs, path)
    IN  IF r.res.ok THEN [files |-> r.files, res |-> Ok(existed)] ELSE r

extension(ds, fs, id) == read_file("Extension", ds, fs, extension_filename(id))

has_extension(ds, fs, id) == Ok(exists(ds, fs, extension_filename(id)))

add_extension(ds, fs, x) ==
    LET path == extension_filename(node_id(x))
        existed == exists(ds, fs, path)
        w == write_file(ds, fs, path, Encode(x))
    IN  IF w.res.ok THEN [files |-> w.files, res |-> Ok(existed)] ELSE w

remove_extension(ds, fs, id) ==
    LET path == extension_filename(id)
        existed == exists(ds, fs, path)
        r == remove_file(ds, fs, path)
    IN  IF r.res.ok THEN [files |-> r.files, res |-> Ok(existed)] ELSE r

\* The spec's uniform names for the per-kind handlers.
get(K, ds, fs, id) ==
    CASE K = "Schema" -> schema(ds, fs, id)
      [] K = "Genesis" -> genesis(ds, fs, id)
      [] K = "Transition" -> transition(ds, fs, id)
      [] K = "Extension" -> extension(ds, fs, id)
      [] K = "Anchor" -> anchor(ds, fs, id)

has(K, ds, fs, id) ==
    CASE K = "Schema" -> has_schema(ds, fs, id)
      [] K = "Genesis" -> has_genesis(ds, fs, id)
      [] K = "Transition" -> has_transition(ds, fs, id)
      [] K = "Extension" -> has_extension(ds, fs, id)
      [] K = "Anchor" -> has_anchor(ds, fs, id)

put(K, ds, fs, x) ==
    CASE K = "Schema" -> add_schema(ds, fs, x)
      [] K = "Genesis" -> add_genesis(ds, fs, x)
      [] K = "Transition" -> add_transition(ds, fs, x)
      [] K = "Extension" -> add_extension(ds, fs, x)
      [] K = "Anchor" -> add_anchor(ds, fs, x)

remove(K, ds, fs, id) ==
    CASE K = "Schema" -> remove_schema(ds, fs, id)
      [] K = "Genesis" -> remove_genesis(ds, fs, id)
      [] K = "Transition" -> remove_transition(ds, fs, id)
      [] K = "Extension" -> remove_extension(ds, fs, id)
      [] K = "Anchor" -> remove_anchor(ds, fs, id)

\* The kinds the Store can list, and the listing of each.
ListedKinds == {"Schema", "Genesis"}

list_ids(K, ds, fs) ==
    CASE K = "Schema" -> schema_ids(ds, fs)
      [] K = "Genesis" -> contract_ids(ds, fs)

----------------------------------------------------------------------------
(* State *)

Idle == [pc |-> "idle"]

NoFiles == [p \in {} |-> <<>>]

NoIndex == [t \in {} |-> 0]

Root(status, present) ==
    [d \in AllDirs |-> IF d = data_dir THEN status
                       ELSE IF d \in present THEN "dir" ELSE "missing"]

\* The data directory before the first construction: missing, empty, or
\* laid out with all five sub-directories.
InitialRoots == {Root("missing", {}), Root("dir", {}), Root("dir", SubDirs)}

RootState(ds) ==
    IF ds[data_dir] = "missing" THEN "missing"
    ELSE IF ds[data_dir] = "dir" /\ \A d \in SubDirs : ds[d] = "missing" THEN "empty"
    ELSE "populated"

Init ==
    /\ dirs \in InitialRoots
    /\ files = NoFiles
    /\ store = "none"
    /\ last = [op |-> "none", kind |-> "none", arg |-> "none", had |-> FALSE,
               res |-> Ok("none")]
    /\ wr = Idle
    /\ rd = [op |-> "none"]
    /\ idx = NoIndex
    /\ indexed = {}
    /\ nops = 0
    /\ kills = <<>>

\* A call by the single writer: the store is open and no other call of the
\* writer is under way.
CanCall == store = "open" /\ wr = Idle /\ nops < MaxOps

Returned(op, K, arg, had, res) ==
    /\ last' = [op |-> op, kind |-> K, arg |-> arg, had |-> had, res |-> res]
    /\ nops' = nops + 1

----------------------------------------------------------------------------
(* Actions: one per call, the whole handler in one step *)

New ==
    /\ store = "none" /\ wr = Idle /\ nops < MaxOps
    /\ LET r == new(dirs) IN
       /\ dirs' = r.dirs
       /\ store' = IF r.res.ok THEN "open" ELSE "none"
       /\ Returned("new", "none", RootState(dirs), FALSE, r.res)
    /\ UNCHANGED <<files, wr, rd, idx, indexed, kills>>

Add(K, x) ==
    /\ CanCall
    /\ LET r == put(K, dirs, files, x) IN
       /\ files' = r.files
       /\ Returned("add", K, x, has(K, dirs, files, identifier(K, x)).val, r.res)
    /\ UNCHANGED <<dirs, store, wr, rd, idx, indexed, kills>>

Remove(K, id) ==
    /\ CanCall
    /\ LET r == remove(K, dirs, files, id) IN
       /\ files' = r.files
       /\ Returned("remove", K, id, has(K, dirs, files, id).val, r.res)
    /\ UNCHANGED <<dirs, store, wr, rd, idx, indexed, kills>>

AddSchema == \E x \in Bodies : Add("Schema", x)
RemoveSchema == \E id \in Ids("Schema") : Remove("Schema", id)
AddGenesis == \E x \in Bodies : Add("Genesis", x)
RemoveGenesis == \E id \in Ids("Genesis") : Remove("Genesis", id)
AddAnchor == \E a \in Anchors : Add("Anchor", a)
RemoveAnchor == \E id \in Ids("Anchor") : Remove("Anchor", id)
AddTransition == \E x \in Bodies : Add("Transition", x)
RemoveTransition == \E id \in Ids("Transition") : Remove("Transition", id)
AddExtension == \E x \in Bodies : Add("Extension", x)
RemoveExtension == \E id \in Ids("Extension") : Remove("Extension", id)

Next ==
    \/ New
    \/ AddSchema
    \/ RemoveSchema
    \/ AddGenesis
    \/ RemoveGenesis
    \/ AddAnchor
    \/ RemoveAnchor
    \/ AddTransition
    \/ RemoveTransition
    \/ AddExtension
    \/ RemoveExtension

Spec == Init /\ [][Next]_vars

----------------------------------------------------------------------------
(* The add_* handlers split at their filesystem calls, the readers that    *)
(* run beside the writer, and a kill of the process.                       *)

\* The handler up to and including write_file's File::create: the file name,
\* the exists() probe, and the file created or truncated at its final path.
AddCreate(K, x) ==
    /\ CanCall
    /\ LET path == filename(K, identifier(K, x))
           existed == exists(dirs, files, path)
           c == file_create(dirs, files, path)
       IN  /\ files' = c.files
           /\ IF c.res.ok
              THEN /\ wr' = [pc |-> "writing", kind |-> K, arg |-> x, path |-> path,
                             existed |-> existed,
                             old |-> IF existed THEN files[path] ELSE <<>>]
                   /\ nops' = nops + 1
                   /\ last' = last
              ELSE /\ wr' = Idle
                   /\ Returned("add", K, x, existed, c.res)
    /\ rd' = [op |-> "none"]
    /\ UNCHANGED <<dirs, store, idx, indexed, kills>>

\* write_file's strict_encode: the next byte goes to the file.
AddWrite ==
    /\ wr.pc = "writing"
    /\ Len(files[wr.path]) < Len(encode(wr.kind, wr.arg))
    /\ files' = file_write(files, wr.path, encode(wr.kind, wr.arg))
    /\ UNCHANGED <<dirs, store, last, wr, rd, idx, indexed, nops, kills>>

\* The handler's Ok(exists).
AddReturn ==
    /\ wr.pc = "writing"
    /\ Len(files[wr.path]) = Len(encode(wr.kind, wr.arg))
    /\ last' = [op |-> "add", kind |-> wr.kind, arg |-> wr.arg, had |-> wr.existed,
                res |-> Ok(wr.existed)]
    /\ wr' = Idle
    /\ UNCHANGED <<dirs, files, store, rd, idx, indexed, nops, kills>>

\* The file table before the writer's current call, and after it.
PreFiles ==
    IF wr.pc = "writing"
    THEN IF wr.existed THEN (wr.path :> wr.old) @@ files
         ELSE [q \in DOMAIN files \ {wr.path} |-> files[q]]
    ELSE files

PostFiles ==
    IF wr.pc = "writing" THEN (wr.path :> encode(wr.kind, wr.arg)) @@ files ELSE files

\* A reader's get or has of the identifier the writer is putting, at any
\* point of the writer's call; with it, what the same call returns before
\* and after the writer's call.
ReaderGet(K, id) ==
    /\ store = "open"
    /\ wr.pc = "writing" /\ wr.kind = K /\ identifier(K, wr.arg) = id
    /\ rd' = [op |-> "get", kind |-> K, id |-> id,
              res |-> get(K, dirs, files, id),
              pre |-> get(K, dirs, PreFiles, id),
              post |-> get(K, dirs, PostFiles, id)]
    /\ UNCHANGED <<dirs, files, store, last, wr, idx, indexed, nops, kills>>

ReaderHas(K, id) ==
    /\ store = "open"
    /\ wr.pc = "writing" /\ wr.kind = K /\ identifier(K, wr.arg) = id
    /\ rd' = [op |-> "has", kind |-> K, id |-> id,
              res |-> has(K, dirs, files, id),
              pre |-> has(K, dirs, PreFiles, id),
              post |-> has(K, dirs, PostFiles, id)]
    /\ UNCHANGED <<dirs, files, store, last, wr, idx, indexed, nops, kills>>

\* The process is killed: the handle and the call under way are gone, the
\* filesystem stays as the calls made so far left it.
Kill ==
    /\ store = "open"
    /\ Len(kills) < MaxKills
    /\ kills' = Append(kills,
                  IF wr.pc = "writing"
                  THEN [during |-> "add", kind |-> wr.kind, arg |-> wr.arg,
                        had |-> wr.existed,
                        done |-> Len(files[wr.path]) = Len(encode(wr.kind, wr.arg))]
                  ELSE [during |-> "none"])
    /\ store' = "none"
    /\ wr' = Idle
    /\ rd' = [op |-> "none"]
    /\ UNCHANGED <<dirs, files, last, idx, indexed, nops>>

AddCreateAny == \E K \in Kinds : \E x \in Artifacts(K) : AddCreate(K, x)
ReaderGetAny == \E K \in Kinds : \E id \in Ids(K) : ReaderGet(K, id)
ReaderHasAny == \E K \in Kinds : \E id \in Ids(K) : ReaderHas(K, id)

NextConc ==
    \/ New
    \/ AddCreateAny
    \/ AddWrite
    \/ AddReturn
    \/ ReaderGetAny
    \/ ReaderHasAny
    \/ Kill

SpecConc == Init /\ [][NextConc]_vars

----------------------------------------------------------------------------
(* The Index: the relation NodeId -> AnchorId behind the two methods of    *)
(* the trait, kept by a durable key-value store.                           *)

\* The lookup as a seek to the first key at or after the transition's
\* identifier, without the comparison of the key found.
anchor_id_by_transition_id_seek(ix, tsid) ==
    LET after == {k \in DOMAIN ix : k >= tsid} IN
    IF after # {}
    THEN Ok(ix[CHOOSE k \in after : \A j \in after : k <= j])
    ELSE Err("NotFound")

\* Index::anchor_id_by_transition_id
anchor_id_by_transition_id(ix, tsid) ==
    IF tsid \in DOMAIN ix THEN Ok(ix[tsid]) ELSE Err("NotFound")

\* index_anchor as a last-writer-wins insert that rebinds a leaf already
\* bound to another anchor.
index_anchor_rebinding(ix, a) ==
    [idx |-> [t \in DOMAIN ix \cup a.leaves |->
                 IF t \in a.leaves THEN anchor_id(a) ELSE ix[t]],
     res |-> Ok(\E t \in a.leaves : t \notin DOMAIN ix \/ ix[t] # anchor_id(a))]

\* index_anchor as a leaf-by-leaf insert that binds the free leaves of the
\* anchor before it reports the leaf bound to another anchor.
index_anchor_leafwise(ix, a) ==
    IF \E t \in a.leaves : t \in DOMAIN ix /\ ix[t] # anchor_id(a)
    THEN [idx |-> [t \in DOMAIN ix \cup a.leaves |->
                      IF t \in DOMAIN ix THEN ix[t] ELSE anchor_id(a)],
          res |-> Err("Conflict")]
    ELSE [idx |-> [t \in DOMAIN ix \cup a.leaves |->
                      IF t \in a.leaves THEN anchor_id(a) ELSE ix[t]],
          res |-> Ok(\E t \in a.leaves : t \notin DOMAIN ix)]

\* Index::index_anchor: binds every leaf of the anchor's Merkle block to the
\* anchor's identifier; a leaf bound to another anchor is a Conflict and
\* nothing is bound.  Returns whether a new binding was made.
index_anchor(ix, a) ==
    IF \E t \in a.leaves : t \in DOMAIN ix /\ ix[t] # anchor_id(a)
    THEN [idx |-> ix, res |-> Err("Conflict")]
    ELSE [idx |-> [t \in DOMAIN ix \cup a.leaves |->
                      IF t \in a.leaves THEN anchor_id(a) ELSE ix[t]],
          res |-> Ok(\E t \in a.leaves : t \notin DOMAIN ix)]

IndexAnchor(a) ==
    /\ CanCall
    /\ LET r == index_anchor(idx, a) IN
       /\ idx' = r.idx
       /\ indexed' = IF r.res.ok THEN indexed \cup {a} ELSE indexed
       /\ Returned("index", "Anchor", a, FALSE, r.res)
    /\ UNCHANGED <<dirs, files, store, wr, rd, kills>>

IndexAnchorAny == \E a \in Anchors : IndexAnchor(a)

NextIndex ==
    \/ New
    \/ AddAnchor
    \/ RemoveAnchor
    \/ IndexAnchorAny
    \/ Kill

SpecIndex == Init /\ [][NextIndex]_vars

----------------------------------------------------------------------------
(* Construction over a data directory with a non-directory in the way: the *)
(* root itself, or one of the sub-directory paths, is a regular file.      *)

BlockedRoots ==
    {Root("file", {})} \cup
    {[d \in AllDirs |-> IF d = b THEN "file" ELSE "dir"] : b \in SubDirs}

InitConfig ==
    /\ dirs \in BlockedRoots
    /\ files = NoFiles
    /\ store = "none"
    /\ last = [op |-> "none", kind |-> "none", arg |-> "none", had |-> FALSE,
               res |-> Ok("none")]
    /\ wr = Idle
    /\ rd = [op |-> "none"]
    /\ idx = NoIndex
    /\ indexed = {}
    /\ nops = 0
    /\ kills = <<>>

SpecConfig == InitConfig /\ [][Next]_vars

----------------------------------------------------------------------------
(* Directory entries the store did not write: an operator renames a stored *)
(* file or drops a file into schemata/ or geneses/.                        *)

listed_dir(K) == IF K = "Schema" THEN schemata_dir ELSE geneses_dir

listed_hrp(K) == IF K = "Schema" THEN SchemaHrp ELSE ContractHrp

\* <id>.rgb.bak
BackupName(K, id) ==
    with_extension(with_extension(to_bech32(listed_hrp(K), id), RGB_FILE_EXT), "bak")

\* An identifier's text with ".rgb" inside it, and the extension.
SplitName(K, id) ==
    LET s == to_bech32(listed_hrp(K), id) IN
    with_extension(<<s[1], s[2], ".", RGB_FILE_EXT, s[3], s[4]>>, RGB_FILE_EXT)

ForeignNames(K) ==
    {with_extension(<<"garbage">>, RGB_FILE_EXT)}
    \cup {BackupName(K, id) : id \in Ids(K)}
    \cup {SplitName(K, id) : id \in Ids(K)}

Foreign(fs) ==
    {p \in DOMAIN fs : \E K \in ListedKinds :
        p[1] = listed_dir(K) /\ p[2] \in ForeignNames(K)}

\* mv <id>.rgb <id>.rgb.bak
OperatorRename(K, id) ==
    /\ wr = Idle
    /\ Cardinality(Foreign(files)) < MaxForeign
    /\ exists(dirs, files, filename(K, id))
    /\ files' = [p \in (DOMAIN files \ {filename(K, id)})
                       \cup {join(listed_dir(K), BackupName(K, id))} |->
                   IF p = join(listed_dir(K), BackupName(K, id))
                   THEN files[filename(K, id)] ELSE files[p]]
    /\ UNCHANGED <<dirs, store, last, wr, rd, idx, indexed, nops, kills>>

\* touch <name>
OperatorPlace(K, name) ==
    /\ wr = Idle
    /\ Cardinality(Foreign(files)) < MaxForeign
    /\ is_dir(dirs, listed_dir(K))
    /\ join(listed_dir(K), name) \notin DOMAIN files
    /\ files' = (join(listed_dir(K), name) :> <<>>) @@ files
    /\ UNCHANGED <<dirs, store, last, wr, rd, idx, indexed, nops, kills>>

OperatorRenameAny == \E K \in ListedKinds : \E id \in Ids(K) : OperatorRename(K, id)
OperatorPlaceAny == \E K \in ListedKinds : \E name \in ForeignNames(K) : OperatorPlace(K, name)

NextListing ==
    \/ New
    \/ AddSchema
    \/ RemoveSchema
    \/ AddGenesis
    \/ RemoveGenesis
    \/ OperatorRenameAny
    \/ OperatorPlaceAny

SpecListing == Init /\ [][NextListing]_vars

----------------------------------------------------------------------------
(* The store handlers with restarts of the process: the DiskStorage value  *)
(* is dropped and DiskStorage::new runs again over the same data directory.*)

NextRestart ==
    \/ New
    \/ AddSchema
    \/ RemoveSchema
    \/ AddGenesis
    \/ RemoveGenesis
    \/ AddAnchor
    \/ RemoveAnchor
    \/ AddTransition
    \/ RemoveTransition
    \/ AddExtension
    \/ RemoveExtension
    \/ Kill

SpecRestart == Init /\ [][NextRestart]_vars

----------------------------------------------------------------------------
(* What a caller can observe of the store *)

Probe(ds, fs) ==
    [K \in Kinds |-> [id \in Ids(K) |-> <<has(K, ds, fs, id), get(K, ds, fs, id)>>]]

Listing(ds, fs) == [K \in ListedKinds |-> list_ids(K, ds, fs)]

\* The last step was one call of the writer.
Called == nops' = nops + 1

InSeq(e, seq) == \E i \in 1..Len(seq) : seq[i] = e

----------------------------------------------------------------------------
(* Claims *)

\* C1: round trip, for each of the five kinds and on a store constructed
\* over any root: after put(K, x), get(K, identifier(x)) returns x.
C1_RoundTrip ==
    last.op = "add" =>
        get(last.kind, dirs, files, identifier(last.kind, last.arg)) = Ok(last.arg)

\* C1, the part the code keeps: a put that returned Ok is read back.
C1_RoundTripOfStoredArtifact ==
    (last.op = "add" /\ last.res.ok) =>
        get(last.kind, dirs, files, identifier(last.kind, last.arg)) = Ok(last.arg)

\* C2: directory bootstrap: after DiskStorage::new succeeds on an empty or
\* missing root, the root and all five sub-directories exist and
\* list_ids(Schema) is the empty sequence.
C2_DirectoryBootstrap ==
    (last.op = "new" /\ last.res.ok /\ last.arg \in {"missing", "empty"}) =>
        /\ \A d \in AllDirs : dirs[d] = "dir"
        /\ schema_ids(dirs, files) = Ok(<<>>)

\* C2, the part the code keeps: the root and the four sub-directories the
\* constructor names exist, and the schema listing is empty.
C2_BootstrapOfNamedDirs ==
    (last.op = "new" /\ last.res.ok /\ last.arg \in {"missing", "empty"}) =>
        /\ \A d \in AllDirs \ {extensions_dir} : dirs[d] = "dir"
        /\ schema_ids(dirs, files) = Ok(<<>>)

\* C3: put idempotence: the second of two consecutive put(K, x) returns true
\* and leaves file contents, has/get of every kind and the listings as the
\* first call left them.
C3_PutIdempotence ==
    [][(/\ Called
        /\ last.op = "add" /\ last'.op = "add"
        /\ last'.kind = last.kind /\ last'.arg = last.arg)
       => /\ last'.res = Ok(TRUE)
          /\ files' = files
          /\ Probe(dirs', files') = Probe(dirs, files)
          /\ Listing(dirs', files') = Listing(dirs, files)]_vars

\* C3, the part the code keeps: after a put that returned Ok, the same put
\* again returns true and changes nothing.
C3_PutIdempotenceOfStoredArtifact ==
    [][(/\ Called
        /\ last.op = "add" /\ last.res.ok /\ last'.op = "add"
        /\ last'.kind = last.kind /\ last'.arg = last.arg)
       => /\ last'.res = Ok(TRUE)
          /\ files' = files
          /\ Probe(dirs', files') = Probe(dirs, files)
          /\ Listing(dirs', files') = Listing(dirs, files)]_vars

\* C4: put returns true exactly when has(K, identifier(x)) was true just
\* before the call, and false otherwise.
C4_PutReportsExisted ==
    last.op = "add" => last.res = Ok(last.had)

\* C4, the part the code keeps: a put that returns Ok returns what has
\* returned just before it.
C4_PutReportsExistedWhenOk ==
    (last.op = "add" /\ last.res.ok) => last.res = Ok(last.had)

\* C5: remove semantics: remove(K, identifier(x)) right after put(K, x)
\* returns true, has is then false, the identifier is not listed, and every
\* other artifact is untouched.
C5_RemoveAfterPut ==
    [][(/\ Called
        /\ last.op = "add" /\ last'.op = "remove"
        /\ last'.kind = last.kind /\ last'.arg = identifier(last.kind, last.arg))
       => /\ last'.res = Ok(TRUE)
          /\ has(last'.kind, dirs', files', last'.arg) = Ok(FALSE)
          /\ last'.kind \in ListedKinds =>
                LET l == list_ids(last'.kind, dirs', files') IN
                l.ok /\ ~InSeq(last'.arg, l.val)
          /\ \A p \in DOMAIN files \ {filename(last'.kind, last'.arg)} :
                p \in DOMAIN files' /\ files'[p] = files[p]]_vars

\* C5, the part the code keeps: the same after a put that returned Ok.
C5_RemoveAfterStoredPut ==
    [][(/\ Called
        /\ last.op = "add" /\ last.res.ok /\ last'.op = "remove"
        /\ last'.kind = last.kind /\ last'.arg = identifier(last.kind, last.arg))
       => /\ last'.res = Ok(TRUE)
          /\ has(last'.kind, dirs', files', last'.arg) = Ok(FALSE)
          /\ last'.kind \in ListedKinds =>
                LET l == list_ids(last'.kind, dirs', files') IN
                l.ok /\ ~InSeq(last'.arg, l.val)
          /\ \A p \in DOMAIN files \ {filename(last'.kind, last'.arg)} :
                p \in DOMAIN files' /\ files'[p] = files[p]]_vars

\* C6: removing an absent artifact returns false without an error and
\* leaves the store unchanged.
C6_RemoveAbsent ==
    [][(Called /\ last'.op = "remove" /\ ~last'.had)
       => (last'.res = Ok(FALSE) /\ files' = files /\ dirs' = dirs)]_vars

\* C7: atomic put: a reader's get or has of the identifier a put is writing
\* returns what it returns before the put or what it returns after it, never
\* anything read from a partially written file.
C7_ReadersSeePreOrPost ==
    rd.op \in {"get", "has"} => rd.res \in {rd.pre, rd.post}

\* Every file visible at a final path decodes to a complete artifact.
VisibleFilesDecode ==
    \A K \in Kinds : \A id \in Ids(K) :
        has(K, dirs, files, id).val => get(K, dirs, files, id).ok

\* C8: crash safety of put: after a kill during put(K, x) before the put
\* took effect, and the restart, has(K, identifier(x)) is what it was before
\* the put, and every file visible at a final path decodes.
C8_CrashSafePut ==
    (/\ kills # <<>>
     /\ kills[Len(kills)].during = "add" /\ ~kills[Len(kills)].done
     /\ last.op = "new" /\ last.res.ok /\ store = "open" /\ wr = Idle)
    => LET k == kills[Len(kills)] IN
       /\ has(k.kind, dirs, files, identifier(k.kind, k.arg)) = Ok(k.had)
       /\ VisibleFilesDecode

\* The anchors whose file is in the store.
StoredAnchors == {a \in Anchors : has_anchor(dirs, files, anchor_id(a)).val}

\* C9: add_anchor keeps the index covering the store: every leaf of every
\* stored anchor looks up to that anchor's identifier.
C9_IndexCoversStore ==
    \A a \in StoredAnchors : \A t \in a.leaves :
        anchor_id_by_transition_id(idx, t) = Ok(anchor_id(a))

\* C10: index coverage: every leaf of every anchor for which index_anchor
\* returned Ok looks up to that anchor's identifier, whatever index_anchor
\* calls, failed or not, and process restarts came later.
C10_IndexCoverage ==
    \A a \in indexed : \A t \in a.leaves :
        anchor_id_by_transition_id(idx, t) = Ok(anchor_id(a))

C10_Witness ==
    /\ indexed # {}
    /\ kills # <<>>
    /\ store = "open"
    /\ last.op = "index" /\ last.res = Err("Conflict")
    /\ \E a \in indexed : \A t \in a.leaves :
          anchor_id_by_transition_id(idx, t) = Ok(anchor_id(a))

\* C11: index functionality: no transition is a leaf of two indexed anchors
\* with different identifiers, and index_anchor of an anchor that shares a
\* leaf with an indexed anchor of another identifier fails with Conflict and
\* leaves the whole index as it was, the anchor's other leaves unbound.
C11_IndexFunctional ==
    /\ [](\A a1 \in indexed : \A a2 \in indexed :
            (a1.leaves \cap a2.leaves # {}) => anchor_id(a1) = anchor_id(a2))
    /\ [][(/\ Called
           /\ last'.op = "index"
           /\ \E a1 \in indexed :
                 /\ anchor_id(a1) # anchor_id(last'.arg)
                 /\ a1.leaves \cap last'.arg.leaves # {})
          => (last'.res = Err("Conflict") /\ idx' = idx)]_vars

C11_Witness ==
    /\ last.op = "index" /\ last.res = Err("Conflict")
    /\ \E t \in last.arg.leaves : t \notin DOMAIN idx
    /\ \E a1 \in indexed :
          /\ anchor_id(a1) # anchor_id(last.arg)
          /\ a1.leaves \cap last.arg.leaves # {}

\* C12: partial failure of add_anchor: an add_anchor(a) issued again while
\* the file of a is already stored, as it is after the file write succeeded
\* and the index update failed, succeeds only with the index covering every
\* leaf of a.
C12_ReissuedAddAnchorCoversIndex ==
    (last.op = "add" /\ last.kind = "Anchor" /\ last.had /\ last.res.ok) =>
        \A t \in last.arg.leaves :
            anchor_id_by_transition_id(idx, t) = Ok(anchor_id(last.arg))

\* C13: configuration error: DiskStorage::new over a data directory where
\* the root or one of the sub-directory paths exists and is not a directory
\* fails with a Config error and returns no usable store.
C13_NonDirectoryIsConfigError ==
    (last.op = "new" /\ \E d \in AllDirs : dirs[d] = "file") =>
        (last.res = Err("Config") /\ store = "none")

\* C13, the part the code keeps: over a root that is a regular file the
\* constructor fails and no store is returned.
C13_FileAsRootFails ==
    (last.op = "new" /\ dirs[data_dir] = "file") =>
        (~last.res.ok /\ store = "none")

\* The identifiers a listing holds.
Listed(l) == {l[i] : i \in 1..Len(l)}

\* C14: list completeness: on a constructed store, after any sequence of
\* puts and removes, list_ids(K) succeeds and holds exactly the identifiers
\* id of kind K for which has(K, id) is true, each of them once.
C14_ListCompleteness ==
    store = "open" =>
        \A K \in ListedKinds :
            LET l == list_ids(K, dirs, files)
                present == {id \in Ids(K) : has(K, dirs, files, id).val}
            IN  /\ l.ok
                /\ Listed(l.val) = present
                /\ Len(l.val) = Cardinality(present)

C14_Witness ==
    /\ last.op = "remove" /\ last.res = Ok(TRUE)
    /\ last.kind \in ListedKinds
    /\ list_ids(last.kind, dirs, files).ok
    /\ list_ids(last.kind, dirs, files).val # <<>>
    /\ ~InSeq(last.arg, list_ids(last.kind, dirs, files).val)

\* The variants of DiskStorageError that report contents that fail to
\* decode or names that fail to parse: the Corrupt kind.
Corrupt == {"Encoding", "BrokenFilenames"}

\* C15: get distinguishes its failures: on a constructed store, get of an
\* identifier whose file is absent fails with NotFound, not Io, and get of
\* an identifier whose file is there either returns the artifact or fails
\* with an error of the Corrupt kind.
C15_GetDistinguishesFailures ==
    store = "open" =>
        \A K \in Kinds : \A id \in Ids(K) :
            LET g == get(K, dirs, files, id) IN
            IF has(K, dirs, files, id).val
            THEN g.ok \/ g.err \in Corrupt
            ELSE g = Err("NotFound")

\* C15, the part the code keeps: get of a file that is there returns the
\* artifact or an error of the Corrupt kind, and every failure of get is a
\* variant of DiskStorageError.
C15_GetFailsWithStorageError ==
    store = "open" =>
        \A K \in Kinds : \A id \in Ids(K) :
            LET g == get(K, dirs, files, id) IN
            /\ has(K, dirs, files, id).val => (g.ok \/ g.err \in Corrupt)
            /\ ~g.ok => g.err \in DiskStorageError

\* The names of the entries of the directory of a listed kind.
NamesIn(K) == {p[2] : p \in {q \in DOMAIN files : q[1] = listed_dir(K)}}

\* Path::file_stem: the name without its last extension.
file_stem(name) == SubSeq(name, 1, Len(name) - 2)

\* C16: listing tolerates foreign files selectively: entries without the
\* .rgb extension are left out of list_ids(K), and one .rgb entry whose stem
\* does not parse as an identifier of kind K makes the whole call fail with
\* the Corrupt error instead of returning a partial list.
C16_ListingOfForeignEntries ==
    store = "open" =>
        \A K \in ListedKinds :
            LET rgb == {n \in NamesIn(K) : HasExtension(n, RGB_FILE_EXT)}
                l == list_ids(K, dirs, files)
            IN  IF \E n \in rgb : ~from_bech32_str(listed_hrp(K), file_stem(n)).ok
                THEN l = Err("BrokenFilenames")
                ELSE /\ l.ok
                     /\ Listed(l.val) =
                            {from_bech32_str(listed_hrp(K), file_stem(n)).val : n \in rgb}

\* C16, the part the code keeps: the same wherever no stem has ".rgb"
\* inside it.
C16_ListingOfPlainStems ==
    store = "open" =>
        \A K \in ListedKinds :
            LET rgb == {n \in NamesIn(K) : HasExtension(n, RGB_FILE_EXT)}
                l == list_ids(K, dirs, files)
            IN  (\A n \in rgb : replace(file_stem(n), <<".", RGB_FILE_EXT>>) = file_stem(n))
                => IF \E n \in rgb : ~from_bech32_str(listed_hrp(K), file_stem(n)).ok
                   THEN l = Err("BrokenFilenames")
                   ELSE /\ l.ok
                        /\ Listed(l.val) =
                               {from_bech32_str(listed_hrp(K), file_stem(n)).val : n \in rgb}

\* C17: index soundness: anchor_id_by_transition_id(t) returns an anchor
\* identifier A only if an earlier index_anchor(a) returned Ok with
\* anchor_id(a) = A and t a leaf of a, and it returns NotFound for every t
\* that is a leaf of no anchor indexed so far.
C17_IndexSoundness ==
    \A t \in NodeIds :
        LET r == anchor_id_by_transition_id(idx, t) IN
        /\ r.ok => \E a \in indexed : anchor_id(a) = r.val /\ t \in a.leaves
        /\ (\A a \in indexed : t \notin a.leaves) => r = Err("NotFound")

C17_Witness ==
    /\ last.op = "index" /\ last.res.ok
    /\ \E t \in last.arg.leaves :
          anchor_id_by_transition_id(idx, t) = Ok(anchor_id(last.arg))
    /\ \E t \in NodeIds \ last.arg.leaves :
          /\ anchor_id_by_transition_id(idx, t) = Err("NotFound")
          /\ \E a \in StoredAnchors : t \in a.leaves

\* C18: kind isolation: a put or remove of kind K leaves has and get of
\* every identifier, and the listing, of every other kind as they were, also
\* where the other kind holds the same identifier text: a Transition and an
\* Extension of one NodeId are independent.
C18_KindIsolation ==
    [][(Called /\ last'.op \in {"add", "remove"})
       => \A K \in Kinds \ {last'.kind} :
             /\ \A id \in Ids(K) :
                   /\ has(K, dirs', files', id) = has(K, dirs, files, id)
                   /\ get(K, dirs', files', id) = get(K, dirs, files, id)
             /\ K \in ListedKinds =>
                   list_ids(K, dirs', files') = list_ids(K, dirs, files)]_vars

C18_Witness ==
    /\ last.op = "remove" /\ last.kind = "Extension" /\ last.res = Ok(TRUE)
    /\ has_extension(dirs, files, last.arg) = Ok(FALSE)
    /\ has_transition(dirs, files, last.arg) = Ok(TRUE)
    /\ transition(dirs, files, last.arg).ok

\* C19: re-construction preserves contents: DiskStorage::new over a root
\* that already holds a store, after a restart or laid out beforehand,
\* succeeds and leaves every file, and has, get and list_ids of every kind
\* and identifier, as they were.
C19_ReconstructionPreservesContents ==
    [][(/\ Called
        /\ last'.op = "new"
        /\ (kills # <<>> \/ last'.arg = "populated"))
       => /\ last'.res.ok
          /\ store' = "open"
          /\ files' = files
          /\ Probe(dirs', files') = Probe(dirs, files)
          /\ Listing(dirs', files') = Listing(dirs, files)]_vars

C19_Witness ==
    /\ last.op = "new" /\ last.res.ok /\ store = "open"
    /\ kills # <<>>
    /\ \E id \in Ids("Schema") :
          /\ has_schema(dirs, files, id) = Ok(TRUE)
          /\ schema(dirs, files, id).ok
          /\ InSeq(id, schema_ids(dirs, files).val)
    /\ \E id \in Ids("Anchor") : anchor(dirs, files, id).ok

====
